---------------------------- MODULE Spec2Model ----------------------------
(***************************************************************************)
(* Replay engine of the F1 dashboard (ReplayPage): playback clock,         *)
(* keyboard and pointer controls, the team radio cue scheduler, the timing *)
(* board and the interpolated track drawing.                               *)
(*                                                                         *)
(* One action is one event handler (or callback) together with the render  *)
(* React performs afterwards and the effects whose dependencies changed.   *)
(* Times are integer milliseconds of wall clock (now, lastTimeRef, timer   *)
(* due times) and integer seconds of race time (frame t, cue t).           *)
(* playbackSpeed is held as a numerator over SpeedDen (1x == SpeedDen) and *)
(* interpolationProgress as a numerator over ProgressDen.                  *)
(***************************************************************************)
EXTENDS Integers, Sequences, FiniteSets, TLC

VARIABLES
    loading,                \* useState(true)
    raceData,               \* useState<RaceData | null>(null)
    frameIndex,             \* useState(0)
    isPlaying,              \* useState(false)
    playbackSpeed,          \* useState(1), numerator over SpeedDen
    interpolationProgress,  \* useState(0), numerator over ProgressDen
    currentRadio,           \* useState<TeamRadioClip | null>: cue index or NoClip
    radioEnabled,           \* useState(true)
    hasInteracted,          \* useState(false)
    lastTimeRef,            \* useRef<number>(0)
    audioRef,               \* useRef<HTMLAudioElement | null>
    playedRadioClipsRef,    \* useRef<Set<number>>: indices of fired cues
    timers,                 \* pending fallback setTimeout callbacks
    now,                    \* wall clock: timestamp of the latest callback
    run,                    \* history: first animation callback of an
                            \* uninterrupted playback run
    announcedAt,            \* history: wall clock when currentRadio was set to
                            \* the clip it holds (0 while it holds none)
    audible,                \* history: number of Audio elements that are playing
    restarted,              \* history: the animation effect has started anew and
                            \* none of its callbacks has run yet
    selectedDriver,         \* useState<string | null>(null)
    showWeatherOverlay,     \* useState(true)
    showTimingBoard,        \* useState(false)
    mounted                 \* the component is mounted

clockVars == <<frameIndex, isPlaying, playbackSpeed, interpolationProgress>>
radioVars == <<currentRadio, audioRef, playedRadioClipsRef, timers, announcedAt,
               audible>>
viewVars == <<selectedDriver, showWeatherOverlay, showTimingBoard>>
vars == <<loading, raceData, frameIndex, isPlaying, playbackSpeed,
          interpolationProgress, currentRadio, radioEnabled, hasInteracted,
          lastTimeRef, audioRef, playedRadioClipsRef, timers, now, run,
          announcedAt, audible, restarted, selectedDriver, showWeatherOverlay,
          showTimingBoard, mounted>>

---------------------------------------------------------------------------
(* Bounds of the model *)

\* frames of the dataset without team radio (frameRate 10)
NumSprintFrames == 12
\* frames of the dataset with team radio (one frame per second of race time)
NumRadioFrames == 6
\* the progress bar is clicked at k/PercentSteps of its width, k in 0..PercentSteps
PercentSteps == 4
\* the wall clock stops after MaxTicks of the longest callback gap
MaxTicks == 4
\* frames of the dataset with drivers and weather
NumViewFrames == 3
\* laps of the datasets with lap timing, and frames recorded in each lap
NumLaps == 3
FramesPerLap == 2
\* laps with a record in the datasets of the timing board (two drivers)
NumBoardLaps == 2
\* frames of the dataset drawn on the track (two drivers)
NumDrawFrames == 3

---------------------------------------------------------------------------
(* Program constants *)

\* speeds are held in quarters, so that half the lowest speed 0.5 is exact
SpeedDen == 4
MinSpeed == SpeedDen \div 2          \* 0.5
MaxSpeed == 8 * SpeedDen             \* 8
InitialSpeed == 1 * SpeedDen         \* useState(1)
MsPerSecond == 1000
ProgressDen == MsPerSecond * SpeedDen
KeyStep == 10
ButtonStep == 50
RadioWindow == 3
FallbackDelay == 8000
\* useState(0.7) of radioVolume, in tenths; setRadioVolume is never called
RadioVolume == 7
\* drs >= 10
DrsThreshold == 10

Min(a, b) == IF a <= b THEN a ELSE b
Max(a, b) == IF a >= b THEN a ELSE b

NoData == [frameRate |-> 0, frames |-> <<>>, teamRadio |-> <<>>, isNull |-> TRUE]
NoClip == -1
NoAudio == [clip |-> NoClip, status |-> "none", volume |-> 0]
NoRun == [on |-> FALSE, t0 |-> 0, f0 |-> 0]
NoDriver == "none"
\* time: number | null
NullTime == -1

---------------------------------------------------------------------------
(* Datasets the fetch can return *)

FramesEverySecond(n) == [i \in 1..n |-> [t |-> i - 1]]

SprintData == [frameRate |-> 10, frames |-> FramesEverySecond(NumSprintFrames),
               teamRadio |-> <<>>, isNull |-> FALSE]
RadioData == [frameRate |-> 1, frames |-> FramesEverySecond(NumRadioFrames),
              teamRadio |-> <<[t |-> 2], [t |-> 1]>>, isNull |-> FALSE]
EmptyData == [frameRate |-> 10, frames |-> <<>>,
              teamRadio |-> <<>>, isNull |-> FALSE]
SingleData == [frameRate |-> 10, frames |-> FramesEverySecond(1),
               teamRadio |-> <<>>, isNull |-> FALSE]
\* frames with one driver on track and a weather record, one cue
ViewFrames(n) ==
    [i \in 1..n |-> [t |-> i - 1, lap |-> 1, drivers |-> {"VER"}, weather |-> TRUE]]
ViewData == [frameRate |-> 1, frames |-> ViewFrames(NumViewFrames),
             teamRadio |-> <<[t |-> 1]>>, isNull |-> FALSE]
\* Datasets with lap timing: one driver, FramesPerLap frames in each lap,
\* and for every lap a recorded time (a fast lap, a slow lap) or none.
LapTimeValues == {NullTime, 85, 90}
TimingFrames ==
    [i \in 1..(NumLaps * FramesPerLap) |->
        [t |-> i - 1, lap |-> ((i - 1) \div FramesPerLap) + 1,
         drivers |-> {"VER"}, weather |-> FALSE]]
TimingData(times) ==
    [frameRate |-> 10, frames |-> TimingFrames, teamRadio |-> <<>>,
     isNull |-> FALSE,
     lapTiming |-> [code \in {"VER"} |->
                       [grid_pos |-> 1,
                        laps |-> [k \in 1..NumLaps |-> [time |-> times[k]]]]]]
TimingDatasets == {TimingData(times) : times \in [1..NumLaps -> LapTimeValues]}

\* Datasets of the timing board: two drivers who swap places from frame to
\* frame, one frame in each lap and one more lap than has a record. Lap
\* times are in milliseconds. The DRS values pass the threshold from below
\* (VER) and from above (HAM).
BoardDrivers == {"VER", "HAM"}
BoardSample(code, i) ==
    [x |-> IF code = "VER" THEN 10 * i ELSE 7 * i,
     y |-> IF code = "VER" THEN 3 * i ELSE 20 - i,
     position |-> IF (code = "VER") = (i % 2 = 1) THEN 1 ELSE 2,
     drs |-> IF code = "VER" THEN DrsThreshold - 2 + i ELSE DrsThreshold + 1 - i]
BoardFrames ==
    [i \in 1..(NumBoardLaps + 1) |->
        [t |-> i - 1, lap |-> i, drivers |-> BoardDrivers, weather |-> FALSE,
         samples |-> [code \in BoardDrivers |-> BoardSample(code, i)]]]
BoardTimeValues == {NullTime, 90000, 92345}
\* a lap record; the sectors are thirds of the lap time where it is known
LapRecord(time) ==
    LET third == IF time = NullTime THEN NullTime ELSE time \div 3
    IN [time |-> time, s1 |-> third, s2 |-> third, s3 |-> third]
BoardLaps == [1..NumBoardLaps -> {LapRecord(time) : time \in BoardTimeValues}]
\* VER starts first on the grid, HAM second
GridPosition(code) == IF code = "VER" THEN 1 ELSE 2
\* lapTiming holds both drivers, or VER alone
BoardData(timing) ==
    [frameRate |-> 10, frames |-> BoardFrames, teamRadio |-> <<>>,
     isNull |-> FALSE,
     lapTiming |-> [code \in DOMAIN timing |->
                       [grid_pos |-> GridPosition(code), laps |-> timing[code]]]]
\* a dataset with recorded times of 0 (VER) beside laps without a time (HAM)
ZeroTimeData ==
    BoardData([code \in BoardDrivers |->
                  [k \in 1..NumBoardLaps |->
                      LapRecord(IF code = "VER" THEN 0 ELSE NullTime)]])
\* a dataset without lapTiming
UntimedData ==
    [frameRate |-> 10, frames |-> BoardFrames, teamRadio |-> <<>>, isNull |-> FALSE]
BoardDatasets ==
    {BoardData(timing) : timing \in [BoardDrivers -> BoardLaps] \cup [{"VER"} -> BoardLaps]}
        \cup {UntimedData, ZeroTimeData}

\* Dataset drawn on the track: HAM is on track in every other frame only.
DrawFrames ==
    [i \in 1..NumDrawFrames |->
        LET on == IF i % 2 = 1 THEN BoardDrivers ELSE {"VER"}
        IN [t |-> i - 1, lap |-> 1, drivers |-> on, weather |-> FALSE,
            samples |-> [code \in on |-> BoardSample(code, i)]]]
DrawData == [frameRate |-> 10, frames |-> DrawFrames, teamRadio |-> <<>>,
             isNull |-> FALSE]
DrawDatasets == {DrawData}

\* Dataset played from start to end within the horizon of the wall clock:
\* the first callback comes after a long gap at most, and a frame takes a
\* gap and a half at most (a short gap, then a long one).
NumPlayFrames == (2 * (MaxTicks - 1)) \div 3
PlayData == [frameRate |-> 10, frames |-> FramesEverySecond(NumPlayFrames),
             teamRadio |-> <<>>, isNull |-> FALSE]
PlayDatasets == {PlayData, SingleData}

\* the datasets without team radio, those with, and those with drivers
ClockDatasets == {SprintData, EmptyData, SingleData}
RadioDatasets == {RadioData}
ViewDatasets == {ViewData}

\* Display refresh. Without team radio a callback arrives half a base frame
\* period or a whole one after the previous one. With team radio the
\* callbacks are slow, half the fallback delay apart, so that every pending
\* timeout falls due at the time of a callback.
LongGap(rd) ==
    IF Len(rd.teamRadio) = 0 THEN MsPerSecond \div rd.frameRate
    ELSE FallbackDelay \div 2
TickGaps(rd) ==
    IF rd.frameRate = 0 THEN {}
    ELSE IF Len(rd.teamRadio) = 0 THEN {LongGap(rd) \div 2, LongGap(rd)}
    ELSE {LongGap(rd)}
MaxTime(rd) ==
    IF rd.frameRate = 0 THEN 0 ELSE MaxTicks * LongGap(rd)

---------------------------------------------------------------------------
(* Reads of the dataset *)

FramesLength(rd) == Len(rd.frames)
LastIndex(rd) == FramesLength(rd) - 1

\* the divisor of progress = (frameIndex / (raceData.frames.length - 1)) * 100
ProgressDivisor(rd) == FramesLength(rd) - 1

\* raceData.frames[i]?.t || 0
FrameTime(rd, i) ==
    IF rd # NoData /\ i >= 0 /\ i < FramesLength(rd) THEN rd.frames[i + 1].t ELSE 0

ClipT(rd, i) == rd.teamRadio[i + 1].t
ClipIndices(rd) == 0 .. (Len(rd.teamRadio) - 1)


---------------------------------------------------------------------------
(* Team radio effects (run after a render whose dependencies changed) *)

\* variant of ShouldScan without the hasInteracted guard
ShouldScanUngated(rd, enabled, gate) ==
    /\ rd # NoData
    /\ Len(rd.teamRadio) # 0
    /\ enabled

\* the guards of the playback effect
ShouldScan(rd, enabled, gate) ==
    /\ rd # NoData
    /\ Len(rd.teamRadio) # 0
    /\ enabled
    /\ gate

\* currentTime >= clip.t && currentTime < clip.t + 3
InWindow(rd, i, currentTime) ==
    /\ currentTime >= ClipT(rd, i)
    /\ currentTime < ClipT(rd, i) + RadioWindow

\* variant of Candidates without the test of the played set
CandidatesPlayedAgain(rd, fi, played) ==
    {i \in ClipIndices(rd) : InWindow(rd, i, FrameTime(rd, fi))}

\* the cues the scan loop would accept at frame fi
Candidates(rd, fi, played) ==
    {i \in ClipIndices(rd) : i \notin played /\ InWindow(rd, i, FrameTime(rd, fi))}

\* variant of Scan without the break
ScanWithoutBreak(rd, fi, played) == Candidates(rd, fi, played)

\* for (i = 0; ...) { if played continue; if in window { ...; break } }:
\* the cues one run of the loop fires; the break ends it at the first
Scan(rd, fi, played) ==
    LET c == Candidates(rd, fi, played)
    IN IF c = {} THEN {} ELSE {CHOOSE i \in c : \A j \in c : i <= j}

\* variant of Rearm that deletes nothing
RearmNothing(rd, fi, played) == played

\* the re-arm effect: delete every played clip with clip.t > currentTime
Rearm(rd, fi, played) ==
    {i \in played : ~(i \in ClipIndices(rd) /\ ClipT(rd, i) > FrameTime(rd, fi))}

\* dependency lists of the two effects
PlaybackEffectRuns(fi, rd, enabled, gate) ==
    fi # frameIndex \/ rd # raceData \/ enabled # radioEnabled \/ gate # hasInteracted
RearmEffectRuns(fi, rd) ==
    fi # frameIndex \/ rd # raceData

\* setTimeout(..., 8000): the pending callback with the timestamp it
\* captured. A timeout that falls due after the horizon can never run and
\* is not tracked.
Timeout(rd, clipTimestamp, due) ==
    IF due <= MaxTime(rd) THEN {[t |-> clipTimestamp, due |-> due]} ELSE {}

\* variant of PlayRejected that un-marks the cue so that it is tried again
PlayRejectedRetries(played, cue) == played \ {cue}

\* .catch(err => console.warn(...)): the rejection is logged, the played
\* set is left as the scan marked it
PlayRejected(played, cue) == played

\* variant of StopCurrent that leaves the previous clip playing
StopCurrentNothing(count, audio) == count

\* if (audioRef.current) { audioRef.current.pause(); audioRef.current = null }:
\* the number of playing Audio elements once the one held is paused
StopCurrent(count, audio) ==
    IF audio.status = "playing" THEN count - 1 ELSE count

\* The effect pass after a render with the new frameIndex fi, dataset rd,
\* radioEnabled and hasInteracted, at wall-clock time `time`.
Effects(fi, rd, enabled, gate, time) ==
    LET fired == IF PlaybackEffectRuns(fi, rd, enabled, gate) /\ ShouldScan(rd, enabled, gate)
                 THEN Scan(rd, fi, playedRadioClipsRef)
                 ELSE {}
        played1 == playedRadioClipsRef \cup fired
        played2 == IF RearmEffectRuns(fi, rd) THEN Rearm(rd, fi, played1) ELSE played1
        \* the clip started last is the one announced and held in audioRef
        cue == CHOOSE i \in fired : \A j \in fired : j <= i
    IN IF fired # {}
       THEN /\ currentRadio' = cue
            /\ announcedAt' = time
            /\ timers' = timers \cup
                  UNION {Timeout(rd, ClipT(rd, i), time + FallbackDelay) : i \in fired}
            \* audio.play() resolves, or rejects and runs the catch handler
            /\ \E ok \in BOOLEAN :
                  /\ audioRef' = [clip |-> cue,
                                  status |-> IF ok THEN "playing" ELSE "failed",
                                  volume |-> RadioVolume]
                  /\ playedRadioClipsRef' =
                        IF ok THEN played2 ELSE PlayRejected(played2, cue)
                  /\ audible' = StopCurrent(audible, audioRef) + (IF ok THEN 1 ELSE 0)
       ELSE /\ playedRadioClipsRef' = played2
            /\ UNCHANGED <<currentRadio, audioRef, timers, announcedAt, audible>>

---------------------------------------------------------------------------
(* Playback clock *)

\* frameInterval = 1000 / (frameRate * playbackSpeed); delta >= frameInterval
IntervalElapsed(delta, rd, speed) ==
    delta * rd.frameRate * speed >= ProgressDen

\* Math.min(delta / frameInterval, 1)
Progress(delta, rd, speed) ==
    Min(delta * rd.frameRate * speed, ProgressDen)

AtEnd(prev, rd) == prev >= LastIndex(rd)

\* variant of LastTime that restarts the measure at every callback
LastTimeNow(time) == time

\* variant of Advance that catches up by skipping a frame
AdvanceSkipping(prev, rd) == IF AtEnd(prev, rd) THEN prev ELSE prev + 2

\* variant of Advance without the test for the last index
AdvanceUnsaturated(prev, rd) == prev + 1

\* setFrameIndex(prev => prev >= frames.length - 1 ? prev : prev + 1)
Advance(prev, rd) == IF AtEnd(prev, rd) THEN prev ELSE prev + 1

\* the branch of the render: if (loading) ...; if (!raceData) ...; else the
\* replay view
ViewState ==
    IF loading THEN "loading"
    ELSE IF raceData = NoData THEN "failed"
    ELSE "loaded"

\* variant of Loaded without the test of raceData
LoadedUntested == ~loading

\* the replay view (controls, root click handler) is rendered
Loaded == ~loading /\ raceData # NoData

\* variant of Animating in which pausing does not cancel the callback
AnimatingUncancelled == raceData # NoData

\* requestAnimationFrame(animate) is pending
Animating == isPlaying /\ raceData # NoData

\* dependency list of the animation effect
AnimationEffectRuns(playing, rd, speed) ==
    playing # isPlaying \/ rd # raceData \/ speed # playbackSpeed

\* A handler that sets the given state and leaves the rest, followed by the
\* render and its effects.
Render(fi, playing, speed, enabled, gate) ==
    /\ mounted
    /\ frameIndex' = fi
    /\ isPlaying' = playing
    /\ playbackSpeed' = speed
    /\ radioEnabled' = enabled
    /\ hasInteracted' = gate
    /\ UNCHANGED <<loading, raceData, interpolationProgress, lastTimeRef, now, mounted>>
    /\ Effects(fi, raceData, enabled, gate, now)
    /\ run' = IF <<fi, playing, speed>> # <<frameIndex, isPlaying, playbackSpeed>>
              THEN NoRun ELSE run
    /\ restarted' = IF AnimationEffectRuns(playing, raceData, speed)
                    THEN playing /\ raceData # NoData
                    ELSE restarted

\* a handler of the playback or radio controls: the view state is left alone
Handle(fi, playing, speed, enabled, gate) ==
    /\ Render(fi, playing, speed, enabled, gate)
    /\ UNCHANGED viewVars

\* the wall clock can reach `time`: within the horizon, and no pending
\* timeout falls due before it
CanReach(time) ==
    /\ time <= MaxTime(raceData)
    /\ \A tm \in timers : time <= tm.due

\* if (lastTimeRef.current === 0) lastTimeRef.current = time
LastTime(time) == IF lastTimeRef = 0 THEN time ELSE lastTimeRef

\* const delta = time - lastTimeRef.current
Delta(time) == time - LastTime(time)

\* animate(time), called gap ms after the previous callback
Tick(gap) ==
    /\ mounted
    /\ Animating
    /\ gap \in TickGaps(raceData)
    /\ CanReach(now + gap)
    /\ LET time == now + gap
           elapsed == IntervalElapsed(Delta(time), raceData, playbackSpeed)
           fi == IF elapsed THEN Advance(frameIndex, raceData) ELSE frameIndex
       IN /\ now' = time
          /\ frameIndex' = fi
          /\ isPlaying' = IF elapsed /\ AtEnd(frameIndex, raceData) THEN FALSE ELSE isPlaying
          /\ interpolationProgress' =
                IF elapsed THEN 0 ELSE Progress(Delta(time), raceData, playbackSpeed)
          /\ lastTimeRef' = IF elapsed THEN time ELSE LastTime(time)
          /\ Effects(fi, raceData, radioEnabled, hasInteracted, time)
          /\ run' = IF lastTimeRef = 0
                    THEN [on |-> TRUE, t0 |-> time, f0 |-> frameIndex]
                    ELSE run
    /\ restarted' = FALSE
    /\ UNCHANGED <<loading, raceData, playbackSpeed, radioEnabled, hasInteracted,
                   viewVars, mounted>>

---------------------------------------------------------------------------
(* Loading *)

LoadSuccess(d) ==
    /\ mounted
    /\ loading
    /\ raceData' = d
    /\ loading' = FALSE
    /\ Effects(frameIndex, d, radioEnabled, hasInteracted, now)
    /\ restarted' = IF AnimationEffectRuns(isPlaying, d, playbackSpeed)
                    THEN isPlaying /\ d # NoData
                    ELSE restarted
    /\ UNCHANGED <<clockVars, radioEnabled, hasInteracted, lastTimeRef, now, run,
                   viewVars, mounted>>

LoadFail ==
    /\ mounted
    /\ loading
    /\ loading' = FALSE
    /\ UNCHANGED <<raceData, clockVars, radioVars, radioEnabled, hasInteracted,
                   lastTimeRef, now, run, restarted, viewVars, mounted>>

---------------------------------------------------------------------------
(* Keyboard controls (window keydown listener) *)

\* raceData?.frames.length || 1
FramesLengthOr1(rd) ==
    IF rd = NoData \/ FramesLength(rd) = 0 THEN 1 ELSE FramesLength(rd)

\* variant of StepForwardKey without Math.min
StepForwardKeyUnclamped(prev, rd) == prev + KeyStep
StepForwardKey(prev, rd) == Min(prev + KeyStep, FramesLengthOr1(rd) - 1)
StepBackKey(prev) == Max(prev - KeyStep, 0)
\* variant of SpeedUp without Math.min
SpeedUpUnclamped(prev) == prev * 2
SpeedUp(prev) == Min(prev * 2, MaxSpeed)
SlowDown(prev) == Max(prev \div 2, MinSpeed)

KeySpace ==
    Handle(frameIndex, ~isPlaying, playbackSpeed, radioEnabled, hasInteracted)

KeyArrowRight ==
    Handle(StepForwardKey(frameIndex, raceData), isPlaying,
           playbackSpeed, radioEnabled, hasInteracted)

KeyArrowLeft ==
    Handle(StepBackKey(frameIndex), isPlaying, playbackSpeed,
           radioEnabled, hasInteracted)

KeyArrowUp ==
    Handle(frameIndex, isPlaying, SpeedUp(playbackSpeed),
           radioEnabled, hasInteracted)

KeyArrowDown ==
    Handle(frameIndex, isPlaying, SlowDown(playbackSpeed),
           radioEnabled, hasInteracted)

KeyR ==
    Handle(0, FALSE, playbackSpeed, radioEnabled, hasInteracted)

---------------------------------------------------------------------------
(* Pointer controls; every click bubbles to the root onClick, which sets   *)
(* hasInteracted                                                           *)

\* Math.floor(percent * (frames.length - 1)), percent = k / PercentSteps
ProgressTarget(k, rd) == (k * (FramesLength(rd) - 1)) \div PercentSteps
StepBackButton(prev) == Max(prev - ButtonStep, 0)
StepForwardButton(prev, rd) == Min(prev + ButtonStep, FramesLength(rd) - 1)
\* prev === 8 ? 0.5 : prev * 2
CycleSpeed(prev) == IF prev = MaxSpeed THEN MinSpeed ELSE prev * 2

ProgressBarClick(k) ==
    /\ Loaded
    /\ Handle(ProgressTarget(k, raceData), isPlaying, playbackSpeed,
              radioEnabled, TRUE)

RestartButton ==
    /\ Loaded
    /\ Handle(0, isPlaying, playbackSpeed, radioEnabled, TRUE)

RewindButton ==
    /\ Loaded
    /\ Handle(StepBackButton(frameIndex), isPlaying, playbackSpeed,
              radioEnabled, TRUE)

PlayButton ==
    /\ Loaded
    /\ Handle(frameIndex, ~isPlaying, playbackSpeed, radioEnabled, TRUE)

FastForwardButton ==
    /\ Loaded
    /\ Handle(StepForwardButton(frameIndex, raceData), isPlaying,
              playbackSpeed, radioEnabled, TRUE)

SpeedButton ==
    /\ Loaded
    /\ Handle(frameIndex, isPlaying, CycleSpeed(playbackSpeed),
              radioEnabled, TRUE)

\* variant of RadioToggle that also pauses the clock
RadioTogglePausing ==
    /\ Loaded
    /\ Handle(frameIndex, FALSE, playbackSpeed, ~radioEnabled, TRUE)

RadioToggle ==
    /\ Loaded
    /\ Handle(frameIndex, isPlaying, playbackSpeed, ~radioEnabled, TRUE)

\* a click anywhere else in the view
RootClick ==
    /\ Loaded
    /\ Handle(frameIndex, isPlaying, playbackSpeed, radioEnabled, TRUE)

---------------------------------------------------------------------------
(* View controls and unmount *)

\* const currentFrame = raceData.frames[frameIndex] is defined
HasFrame(rd, fi) == fi >= 0 /\ fi < FramesLength(rd)

\* sortedDrivers: the driver codes of the current frame
FrameDrivers(rd, fi) == IF HasFrame(rd, fi) THEN rd.frames[fi + 1].drivers ELSE {}

\* currentFrame?.weather: the weather panel with the overlay checkbox
HasWeather(rd, fi) == HasFrame(rd, fi) /\ rd.frames[fi + 1].weather

\* a click on a view control bubbles to the root onClick
ViewClick == Render(frameIndex, isPlaying, playbackSpeed, radioEnabled, TRUE)

\* setShowTimingBoard(!showTimingBoard)
TimingToggle ==
    /\ Loaded
    /\ ViewClick
    /\ showTimingBoard' = ~showTimingBoard
    /\ UNCHANGED <<selectedDriver, showWeatherOverlay>>

\* the close button of the timing board: setShowTimingBoard(false)
TimingClose ==
    /\ Loaded
    /\ showTimingBoard
    /\ ViewClick
    /\ showTimingBoard' = FALSE
    /\ UNCHANGED <<selectedDriver, showWeatherOverlay>>

\* setShowWeatherOverlay(e.target.checked)
WeatherToggle ==
    /\ Loaded
    /\ HasWeather(raceData, frameIndex)
    /\ ViewClick
    /\ showWeatherOverlay' = ~showWeatherOverlay
    /\ UNCHANGED <<selectedDriver, showTimingBoard>>

\* setSelectedDriver(isSelected ? null : code)
ToggleSelection(prev, code) == IF prev = code THEN NoDriver ELSE code

\* a click on a row of the standings
SelectDriver(code) ==
    /\ Loaded
    /\ code \in FrameDrivers(raceData, frameIndex)
    /\ ViewClick
    /\ selectedDriver' = ToggleSelection(selectedDriver, code)
    /\ UNCHANGED <<showWeatherOverlay, showTimingBoard>>

\* a click on a row of the timing board
SelectDriverRow(code) ==
    /\ Loaded
    /\ showTimingBoard
    /\ code \in FrameDrivers(raceData, frameIndex)
    /\ ViewClick
    /\ selectedDriver' = ToggleSelection(selectedDriver, code)
    /\ UNCHANGED <<showWeatherOverlay, showTimingBoard>>

\* The component unmounts: the effect cleanups cancel the animation frame,
\* remove the key listener and pause and release the audio. Pending
\* timeouts are not cleared.
Unmount ==
    /\ mounted
    /\ mounted' = FALSE
    /\ audioRef' = NoAudio
    /\ audible' = StopCurrent(audible, audioRef)
    /\ UNCHANGED <<loading, raceData, clockVars, currentRadio, radioEnabled,
                   hasInteracted, lastTimeRef, playedRadioClipsRef, timers,
                   now, run, announcedAt, restarted, viewVars>>

---------------------------------------------------------------------------
(* Timing board *)

\* const currentLap = currentFrame?.lap || 1
CurrentLap(rd, fi) ==
    IF HasFrame(rd, fi) /\ rd.frames[fi + 1].lap # 0 THEN rd.frames[fi + 1].lap ELSE 1

\* l.time && ...: null and 0 are falsy
Truthy(time) == time # NullTime /\ time # 0

\* if (l.time && (bestLapTime === null || l.time < bestLapTime)) bestLapTime = l.time
BestLapStep(best, time) ==
    IF Truthy(time) /\ (best = NullTime \/ time < best) THEN time ELSE best

\* Object.values(lapData.laps).forEach(...), from lap k on
RECURSIVE BestLapFrom(_, _, _)
BestLapFrom(laps, k, best) ==
    IF k > Len(laps) THEN best
    ELSE BestLapFrom(laps, k + 1, BestLapStep(best, laps[k].time))

\* const lapData = raceData.lapTiming?.[code] is defined
HasLapData(rd, code) ==
    "lapTiming" \in DOMAIN rd /\ code \in DOMAIN rd.lapTiming

\* bestLapTime of the timing row of driver code: null without lapData
BestLapTime(rd, code) ==
    IF HasLapData(rd, code) THEN BestLapFrom(rd.lapTiming[code].laps, 1, NullTime)
    ELSE NullTime

\* the sample of a driver in frame fi
Sample(rd, fi, code) == rd.frames[fi + 1].samples[code]

\* sortedDrivers: the codes of the current frame by ascending position
SortedDrivers(rd, fi) ==
    LET ds == FrameDrivers(rd, fi)
    IN IF ds = {} THEN <<>>
       ELSE CHOOSE order \in [1..Cardinality(ds) -> ds] :
               \A i, j \in 1..Cardinality(ds) :
                  i < j => Sample(rd, fi, order[i]).position
                              < Sample(rd, fi, order[j]).position

\* an undefined lap record: every field read from it is falsy
NoLap == LapRecord(NullTime)

\* raceData.lapTiming?.[code]?.laps?.[k]
LapAt(rd, code, k) ==
    IF HasLapData(rd, code) /\ k \in DOMAIN rd.lapTiming[code].laps
    THEN rd.lapTiming[code].laps[k] ELSE NoLap

\* const lastLapData = lapData?.laps?.[currentLap - 1]
LastLapData(rd, fi, code) == LapAt(rd, code, CurrentLap(rd, fi) - 1)

\* a.time && b.time ? a.time - b.time : 0
TimeDifference(a, b) ==
    IF Truthy(a.time) /\ Truthy(b.time) THEN a.time - b.time ELSE 0

\* gapToLeader of the row at place idx (1 is the leader)
GapToLeader(rd, fi, idx) ==
    LET order == SortedDrivers(rd, fi)
    IN TimeDifference(LastLapData(rd, fi, order[idx]), LastLapData(rd, fi, order[1]))

\* interval of the row at place idx to the car ahead; the leader has none
Interval(rd, fi, idx) ==
    LET order == SortedDrivers(rd, fi)
    IN IF idx > 1
       THEN TimeDifference(LastLapData(rd, fi, order[idx]),
                           LastLapData(rd, fi, order[idx - 1]))
       ELSE 0

\* the cell texts: the dash, "Leader", and `+${Math.abs(d).toFixed(3)}s`
DashCell == [kind |-> "dash"]
LeaderCell == [kind |-> "leader"]
Abs(d) == IF d < 0 THEN 0 - d ELSE d
PlusCell(d) == [kind |-> "plus", ms |-> Abs(d)]

\* variant of FormatLapTime without the test for no time
FormatLapTimeUnguarded(time) ==
    [kind |-> "lap", mins |-> time \div (60 * MsPerSecond),
     ms |-> time % (60 * MsPerSecond)]

\* formatLapTime: the dash, or minutes and seconds to the millisecond
FormatLapTime(time) ==
    IF ~Truthy(time) THEN DashCell
    ELSE [kind |-> "lap", mins |-> time \div (60 * MsPerSecond),
          ms |-> time % (60 * MsPerSecond)]

\* formatSector: the dash, or seconds to the millisecond
FormatSector(time) ==
    IF ~Truthy(time) THEN DashCell ELSE [kind |-> "sector", ms |-> time]

\* the cells of the row at place idx
LastLapCell(rd, fi, idx) ==
    FormatLapTime(LastLapData(rd, fi, SortedDrivers(rd, fi)[idx]).time)
BestLapCell(rd, fi, idx) ==
    FormatLapTime(BestLapTime(rd, SortedDrivers(rd, fi)[idx]))
IntervalCell(rd, fi, idx) ==
    IF idx = 1 THEN DashCell
    ELSE IF Interval(rd, fi, idx) # 0 THEN PlusCell(Interval(rd, fi, idx))
    ELSE DashCell
GapCell(rd, fi, idx) ==
    IF idx = 1 THEN LeaderCell
    ELSE IF GapToLeader(rd, fi, idx) # 0 THEN PlusCell(GapToLeader(rd, fi, idx))
    ELSE DashCell
SectorCells(rd, fi, idx) ==
    LET last == LastLapData(rd, fi, SortedDrivers(rd, fi)[idx])
    IN <<FormatSector(last.s1), FormatSector(last.s2), FormatSector(last.s3)>>

\* const gridPos = lapData?.grid_pos || 0
GridPos(rd, code) == IF HasLapData(rd, code) THEN rd.lapTiming[code].grid_pos ELSE 0

\* const posDiff = gridPos - pos.position
PosDiff(rd, fi, idx) ==
    LET code == SortedDrivers(rd, fi)[idx]
    IN GridPos(rd, code) - Sample(rd, fi, code).position

\* the Diff cell: nothing for 0, else the signed number of places
EmptyCell == [kind |-> "empty"]
DiffCell(rd, fi, idx) ==
    IF PosDiff(rd, fi, idx) # 0
    THEN [kind |-> "places", places |-> PosDiff(rd, fi, idx)]
    ELSE EmptyCell

\* variant of BoardDrs with the threshold excluded
DrsAboveThreshold(drs) == IF drs > DrsThreshold THEN "ON" ELSE "OFF"

\* pos.drs >= 10 ? 'ON' : 'OFF' in the row of the timing board
BoardDrs(drs) == IF drs >= DrsThreshold THEN "ON" ELSE "OFF"

\* currentFrame.drivers[selectedDriver].drs >= 10 ? 'ON' : 'OFF' in the
\* driver info panel
PanelDrs(drs) == IF drs >= DrsThreshold THEN "ON" ELSE "OFF"

\* selectedDriver && currentFrame?.drivers[selectedDriver]: the driver info
\* panel is rendered
PanelShown(rd, fi, selected) ==
    selected # NoDriver /\ selected \in FrameDrivers(rd, fi)

---------------------------------------------------------------------------
(* Track drawing (drawTrack): positions are numerators over ProgressDen *)

\* Math.min(frameIndex + 1, frames.length - 1)
NextFrameIndex(rd, fi) == Min(fi + 1, LastIndex(rd))

\* variant of NextPos that sends a driver missing from the next frame to
\* the origin
NextPosOrigin(rd, fi, code) ==
    LET nf == NextFrameIndex(rd, fi)
    IN IF HasFrame(rd, nf) /\ code \in FrameDrivers(rd, nf)
       THEN Sample(rd, nf, code)
       ELSE [Sample(rd, fi, code) EXCEPT !.x = 0, !.y = 0]

\* const nextPos = nextFrame?.drivers[code] || pos
NextPos(rd, fi, code) ==
    LET nf == NextFrameIndex(rd, fi)
    IN IF HasFrame(rd, nf) /\ code \in FrameDrivers(rd, nf)
       THEN Sample(rd, nf, code)
       ELSE Sample(rd, fi, code)

\* from + (to - from) * interpolationProgress
Interpolate(from, to, progress) == from * ProgressDen + (to - from) * progress

\* interpX and interpY of a driver of the current frame
DrawnPosition(rd, fi, code, progress) ==
    LET pos == Sample(rd, fi, code)
        nextPos == NextPos(rd, fi, code)
    IN <<Interpolate(pos.x, nextPos.x, progress),
         Interpolate(pos.y, nextPos.y, progress)>>

---------------------------------------------------------------------------
(* Audio and timer callbacks, passage of time *)

\* audio.onended = () => setCurrentRadio(null)
AudioEnded ==
    /\ mounted
    /\ audioRef.status = "playing"
    /\ audioRef' = [audioRef EXCEPT !.status = "ended"]
    /\ currentRadio' = NoClip
    /\ announcedAt' = 0
    /\ audible' = audible - 1
    /\ UNCHANGED <<loading, raceData, clockVars, radioEnabled, hasInteracted,
                   lastTimeRef, playedRadioClipsRef, timers, now, run,
                   restarted, viewVars, mounted>>

\* variant of ClearIfSame that never clears
ClearNever(prev, rd, clipTimestamp) == prev

\* setCurrentRadio(prev => prev?.t === clipTimestamp ? null : prev)
ClearIfSame(prev, rd, clipTimestamp) ==
    IF prev # NoClip /\ ClipT(rd, prev) = clipTimestamp THEN NoClip ELSE prev

TimeoutFires(tm) ==
    /\ mounted
    /\ tm \in timers
    /\ now >= tm.due
    /\ timers' = timers \ {tm}
    /\ currentRadio' = ClearIfSame(currentRadio, raceData, tm.t)
    /\ announcedAt' = IF currentRadio' = NoClip THEN 0 ELSE announcedAt
    /\ UNCHANGED <<loading, raceData, clockVars, radioEnabled, hasInteracted,
                   lastTimeRef, audioRef, playedRadioClipsRef, now, run,
                   audible, restarted, viewVars, mounted>>

\* no animation callback is pending: time passes without one
Wait(gap) ==
    /\ mounted
    /\ Loaded
    /\ ~Animating
    /\ gap \in TickGaps(raceData)
    /\ CanReach(now + gap)
    /\ now' = now + gap
    /\ UNCHANGED <<loading, raceData, clockVars, radioVars, radioEnabled,
                   hasInteracted, lastTimeRef, run, restarted, viewVars, mounted>>

---------------------------------------------------------------------------
(* Specification *)

Init ==
    /\ loading = TRUE
    /\ raceData = NoData
    /\ frameIndex = 0
    /\ isPlaying = FALSE
    /\ playbackSpeed = InitialSpeed
    /\ interpolationProgress = 0
    /\ currentRadio = NoClip
    /\ radioEnabled = TRUE
    /\ hasInteracted = FALSE
    /\ lastTimeRef = 0
    /\ audioRef = NoAudio
    /\ playedRadioClipsRef = {}
    /\ timers = {}
    /\ now = 0
    /\ run = NoRun
    /\ announcedAt = 0
    /\ audible = 0
    /\ restarted = FALSE
    /\ selectedDriver = NoDriver
    /\ showWeatherOverlay = TRUE
    /\ showTimingBoard = FALSE
    /\ mounted = TRUE

\* play/pause, seek and restart controls
SeekControls ==
    \/ KeySpace
    \/ KeyArrowRight
    \/ KeyArrowLeft
    \/ KeyR
    \/ \E k \in 0..PercentSteps : ProgressBarClick(k)
    \/ RestartButton
    \/ RewindButton
    \/ PlayButton
    \/ FastForwardButton

SpeedControls ==
    \/ KeyArrowUp
    \/ KeyArrowDown
    \/ SpeedButton

RadioControls ==
    \/ RadioToggle
    \/ RootClick

TimePasses ==
    \/ \E gap \in TickGaps(raceData) : Tick(gap)
    \/ \E gap \in TickGaps(raceData) : Wait(gap)

RadioCallbacks ==
    \/ AudioEnded
    \/ \E tm \in timers : TimeoutFires(tm)

\* The replay of a dataset without team radio: no clip is ever started, so
\* the audio and timeout callbacks never run.
NextClock ==
    \/ \E d \in ClockDatasets : LoadSuccess(d)
    \/ LoadFail
    \/ SeekControls
    \/ SpeedControls
    \/ RadioControls
    \/ TimePasses

\* The replay of a dataset with team radio. Its callbacks are so far apart
\* that every one of them advances a frame at any speed; the speed controls
\* are left alone here.
NextRadio ==
    \/ \E d \in RadioDatasets : LoadSuccess(d)
    \/ LoadFail
    \/ SeekControls
    \/ RadioControls
    \/ TimePasses
    \/ RadioCallbacks

ViewControls ==
    \/ TimingToggle
    \/ TimingClose
    \/ WeatherToggle
    \/ \E code \in FrameDrivers(raceData, frameIndex) : SelectDriver(code)
    \/ \E code \in FrameDrivers(raceData, frameIndex) : SelectDriverRow(code)

\* The replay of a dataset with drivers, weather and one cue, under the
\* view controls, play/pause, a step back, and unmount.
NextView ==
    \/ \E d \in ViewDatasets : LoadSuccess(d)
    \/ LoadFail
    \/ KeySpace
    \/ PlayButton
    \/ KeyArrowLeft
    \/ RadioControls
    \/ TimePasses
    \/ RadioCallbacks
    \/ ViewControls
    \/ Unmount

\* The timing board over the datasets with lap timing, reached by seeks.
NextTiming ==
    \/ \E d \in TimingDatasets : LoadSuccess(d)
    \/ LoadFail
    \/ KeyArrowRight
    \/ KeyArrowLeft
    \/ KeyR
    \/ \E k \in 0..PercentSteps : ProgressBarClick(k)
    \/ RestartButton
    \/ RewindButton
    \/ FastForwardButton
    \/ TimingToggle
    \/ TimingClose

\* The timing board and the driver info panel over the datasets with two
\* drivers, reached by seeks.
NextBoard ==
    \/ \E d \in BoardDatasets : LoadSuccess(d)
    \/ LoadFail
    \/ KeyArrowRight
    \/ KeyArrowLeft
    \/ \E k \in 0..PercentSteps : ProgressBarClick(k)
    \/ TimingToggle
    \/ TimingClose
    \/ \E code \in FrameDrivers(raceData, frameIndex) : SelectDriver(code)
    \/ \E code \in FrameDrivers(raceData, frameIndex) : SelectDriverRow(code)

\* The track drawn during playback of the dataset with a driver who leaves
\* the track.
NextDraw ==
    \/ \E d \in DrawDatasets : LoadSuccess(d)
    \/ LoadFail
    \/ KeySpace
    \/ KeyArrowLeft
    \/ KeyArrowUp
    \/ TimePasses

\* some animation callback runs
AnimationFrame == \E gap \in TickGaps(raceData) : Tick(gap)

\* nothing has been played yet and no wall-clock time has passed
BeforeStart == ~isPlaying /\ now = 0 /\ lastTimeRef = 0

\* One playback without interruption: the user picks a frame and a speed
\* of 1 or more, starts playback, and gives no input from then on.
NextPlay ==
    \/ \E d \in PlayDatasets : LoadSuccess(d)
    \/ LoadFail
    \/ BeforeStart /\ \E k \in 0..PercentSteps : ProgressBarClick(k)
    \/ BeforeStart /\ KeyArrowUp
    \/ BeforeStart /\ KeySpace
    \/ AnimationFrame

Next == NextClock \/ NextRadio \/ NextView \/ NextTiming \/ NextBoard \/ NextDraw
           \/ NextPlay

Spec == Init /\ [][Next]_vars
SpecClock == Init /\ [][NextClock]_vars
SpecRadio == Init /\ [][NextRadio]_vars
SpecView == Init /\ [][NextView]_vars
SpecTiming == Init /\ [][NextTiming]_vars
SpecBoard == Init /\ [][NextBoard]_vars
SpecDraw == Init /\ [][NextDraw]_vars
\* requestAnimationFrame(animate) is called again by every callback, and
\* the browser runs a pending callback at the next display refresh
SpecPlay == Init /\ [][NextPlay]_vars /\ WF_vars(AnimationFrame)

---------------------------------------------------------------------------
(* Properties of the playback clock and the controls *)

\* some animation callback of this step advanced frameIndex by one
TickAdvances == \E gap \in TickGaps(raceData) : Tick(gap) /\ frameIndex' = frameIndex + 1

\* some animation callback of this step ran
TickRuns == \E gap \in TickGaps(raceData) : Tick(gap)

\* a seek control is used in this step
Seeks ==
    \/ KeyArrowRight
    \/ KeyArrowLeft
    \/ KeyR
    \/ \E k \in 0..PercentSteps : ProgressBarClick(k)
    \/ RestartButton
    \/ RewindButton
    \/ FastForwardButton

\* C1: on a loaded dataset with at least one frame, frameIndex stays within
\* 0 .. frames.length - 1 in every reachable state, whatever seeks and
\* animation callbacks ran; a request past either end is clamped.
C1_FrameIndexInRange ==
    (raceData # NoData /\ FramesLength(raceData) >= 1)
        => (0 <= frameIndex /\ frameIndex <= LastIndex(raceData))

\* Only key presses so far (no click, no animation callback), and the last
\* index is not a multiple of the key step: ArrowRight was clamped to it.
C1_ClampedAtEnd ==
    /\ raceData # NoData
    /\ FramesLength(raceData) > KeyStep
    /\ LastIndex(raceData) % KeyStep # 0
    /\ frameIndex = LastIndex(raceData)
    /\ ~hasInteracted
    /\ lastTimeRef = 0

\* C3: with frameRate 10 and speed 2, 250 ms of uninterrupted playback
\* (measured from the first animation callback of the run) has advanced
\* frameIndex by exactly 5, or to the last index, whatever the schedule of
\* callbacks.
C3_AdvancesFollowWallTime ==
    (/\ run.on
     /\ raceData # NoData
     /\ raceData.frameRate = 10
     /\ playbackSpeed = 2 * SpeedDen
     /\ now - run.t0 = 250)
        => frameIndex = Min(run.f0 + 5, Max(LastIndex(raceData), run.f0))

\* C4 as stated: the callback that advances frameIndex to the last index
\* leaves the clock paused, and a callback at the last index leaves
\* frameIndex unchanged.
C4_PausedOnReachingEnd ==
    [][/\ (TickAdvances /\ frameIndex' = LastIndex(raceData)) => ~isPlaying'
       /\ (TickRuns /\ AtEnd(frameIndex, raceData)) => frameIndex' = frameIndex]_vars

\* C4, amended: the callback that advances frameIndex (to the last index
\* included) leaves the clock playing; a callback at the last index leaves
\* frameIndex unchanged, and pauses the clock exactly when a whole frame
\* interval has elapsed since the last advance.
C4_PausedAfterEnd ==
    [][/\ TickAdvances => isPlaying'
       /\ (TickRuns /\ AtEnd(frameIndex, raceData)) =>
             /\ frameIndex' = frameIndex
             /\ isPlaying' = ~IntervalElapsed(Delta(now'), raceData, playbackSpeed)]_vars

\* An uninterrupted playback run has advanced to the last index and has
\* been paused there by the animation callback.
C4_RanToEndAndPaused ==
    /\ run.on
    /\ raceData # NoData
    /\ run.f0 < frameIndex
    /\ frameIndex = LastIndex(raceData)
    /\ ~isPlaying

\* C8: playbackSpeed stays within [0.5, 8] in every reachable state.
C8_SpeedInRange ==
    MinSpeed <= playbackSpeed /\ playbackSpeed <= MaxSpeed

\* The top speed, reached by ArrowUp alone (no click so far).
C8_TopSpeedByKeys ==
    playbackSpeed = MaxSpeed /\ ~hasInteracted

\* C9: every seek leaves the interpolation fraction 0.
C9_SeekResetsInterpolation ==
    [][Seeks => interpolationProgress' = 0]_vars

\* C10: after the R key or the restart button, frameIndex is 0 and the
\* clock is paused.
C10_RestartPauses ==
    [][(KeyR \/ RestartButton) => (frameIndex' = 0 /\ ~isPlaying')]_vars

\* C11: at the last index with the clock paused, Space or the play button
\* leaves isPlaying false.
C11_PlayIsNoOpAtEnd ==
    [][(/\ KeySpace \/ PlayButton
        /\ raceData # NoData
        /\ FramesLength(raceData) >= 1
        /\ frameIndex = LastIndex(raceData)
        /\ ~isPlaying) => ~isPlaying']_vars

\* C12: every animation callback leaves frameIndex unchanged or increases
\* it by exactly 1, however much wall time has elapsed.
C12_TickAdvancesAtMostOne ==
    [][TickRuns => frameIndex' \in {frameIndex, frameIndex + 1}]_vars

\* An uninterrupted playback run has lasted at least two frame intervals
\* since its first callback and has advanced a single frame.
C12_OneAdvanceInTwoIntervals ==
    /\ run.on
    /\ isPlaying
    /\ frameIndex = run.f0 + 1
    /\ IntervalElapsed((now - run.t0) \div 2, raceData, playbackSpeed)

\* C16: while isPlaying is false no animation callback runs, and a step
\* that changes frameIndex or the interpolation fraction is a seek.
C16_PausedClockStandsStill ==
    [][~isPlaying =>
          /\ ~TickRuns
          /\ (\/ frameIndex' # frameIndex
              \/ interpolationProgress' # interpolationProgress) => Seeks]_vars

\* Playback was paused between two frames (the interpolation fraction is
\* not 0) and two callback periods have passed since: the fraction is as
\* the last callback left it.
C16_PausedBetweenFrames ==
    /\ raceData # NoData
    /\ ~isPlaying
    /\ interpolationProgress # 0
    /\ now - lastTimeRef >= 2 * LongGap(raceData)

\* a click on the replay content is handled in this step
ContentClick ==
    \/ \E k \in 0..PercentSteps : ProgressBarClick(k)
    \/ RestartButton
    \/ RewindButton
    \/ PlayButton
    \/ FastForwardButton
    \/ SpeedButton
    \/ RadioToggle
    \/ RootClick

\* the fetch settles in this step
LoadSettles == LoadFail \/ \E d \in ClockDatasets : LoadSuccess(d)

\* C18: the view starts in the loading state and leaves it only when the
\* fetch settles: for the failed state on a failure, for the loaded state
\* on a success. The failed and the loaded state are never left, and a
\* click on the replay content is handled only in the loaded state.
C18_LoadingLoadedFailed ==
    /\ ViewState = "loading"
    /\ [][/\ LoadFail => ViewState' = "failed"
          /\ (\E d \in ClockDatasets : LoadSuccess(d)) => ViewState' = "loaded"
          /\ (ViewState = "loading" /\ ViewState' # "loading") => LoadSettles
          /\ ViewState = "failed" => ViewState' = "failed"
          /\ ViewState = "loaded" => ViewState' = "loaded"
          /\ ContentClick => ViewState = "loaded"]_vars

\* The fetch failed and a key was pressed since: the view is still in the
\* failed state, with no dataset.
C18_FailedAndStaysFailed ==
    /\ ViewState = "failed"
    /\ raceData = NoData
    /\ isPlaying
    /\ playbackSpeed # InitialSpeed

\* C19: whenever the replay view is rendered, the divisor of the progress
\* percentage is not zero.
C19_ProgressDivisorNonZero ==
    Loaded => ProgressDivisor(raceData) # 0

\* C26: the first animation callback after the animation effect started
\* anew (playback resumed, or the speed changed while playing) advances
\* frameIndex only if a whole effective frame interval has passed since.
C26_PausedTimeNotCounted ==
    [][\A gap \in TickGaps(raceData) :
          (Tick(gap) /\ restarted /\ frameIndex' # frameIndex)
              => IntervalElapsed(gap, raceData, playbackSpeed)]_vars

\* C34: with animation callbacks delivered and no input after the start,
\* playback of a loaded dataset leads to the last index with the clock
\* stopped, and a stopped clock that has played leaves frameIndex alone.
C34_PlaysToEndAndStops ==
    /\ (isPlaying /\ raceData # NoData)
          ~> (~isPlaying /\ frameIndex = LastIndex(raceData))
    /\ [][(~isPlaying /\ lastTimeRef # 0) => frameIndex' = frameIndex]_vars

\* Playback was started at twice the initial speed or more from a frame
\* before the last, ran to the last index and stopped there.
C34_StoppedAtEndAfterFastRun ==
    /\ run.on
    /\ raceData # NoData
    /\ playbackSpeed > InitialSpeed
    /\ run.f0 < LastIndex(raceData)
    /\ frameIndex = LastIndex(raceData)
    /\ ~isPlaying
    /\ lastTimeRef > run.t0

\* C30: frameIndex is not negative in any reachable state, whatever dataset
\* was loaded (one with no frames included) and whatever seeks and animation
\* callbacks ran.
C30_FrameIndexNotNegative ==
    frameIndex >= 0

---------------------------------------------------------------------------
(* Properties of the team radio cue scheduler *)

\* the render of this step runs the scan loop
Scans ==
    /\ PlaybackEffectRuns(frameIndex', raceData', radioEnabled', hasInteracted')
    /\ ShouldScan(raceData', radioEnabled', hasInteracted')

\* the cues the scan loop of this step can accept
ScanCandidates == Candidates(raceData', frameIndex', playedRadioClipsRef)

\* this step starts the clip of cue i: a new Audio is held, the cue is
\* announced anew, or a new fallback timeout is pending for its timestamp
Starts(i) ==
    \/ audioRef' # audioRef /\ audioRef'.clip = i
                            /\ audioRef'.status \in {"playing", "failed"}
    \/ currentRadio' # currentRadio /\ currentRadio' = i
    \/ \E tm \in timers' \ timers : tm.t = ClipT(raceData', i)

\* this step marks cue i fired; its clip is then the one held and announced
Fires(i) ==
    /\ i \notin playedRadioClipsRef
    /\ i \in playedRadioClipsRef'
    /\ audioRef'.clip = i
    /\ audioRef'.status \in {"playing", "failed"}
    /\ currentRadio' = i

\* C2: with radio enabled and the gate set, the scan on entering a frame
\* inside the window of an unfired cue fires it (the first such cue in array
\* order); while it is in the fired set it is not fired again; and once the
\* current time is before its timestamp it is out of the fired set, so the
\* next pass through the window fires it once more.
C2_FiresOncePerSweep ==
    [][\A i \in ClipIndices(raceData') :
          /\ (Scans /\ i \in ScanCandidates /\ \A j \in ScanCandidates : i <= j)
                => Fires(i)
          /\ i \in playedRadioClipsRef => ~Starts(i)
          /\ FrameTime(raceData', frameIndex') < ClipT(raceData', i)
                => i \notin playedRadioClipsRef']_vars

\* A cue has fired twice: the timeout of an earlier firing is still pending,
\* the frame was moved back before the cue, and the current playback run,
\* started before the cue's timestamp, has just fired it again.
C2_FiredAgainOnReplay ==
    /\ run.on
    /\ \E i \in playedRadioClipsRef : \E a, b \in timers :
          /\ a.t = ClipT(raceData, i)
          /\ b.t = ClipT(raceData, i)
          /\ a.due < b.due
          /\ b.due = now + FallbackDelay
          /\ FrameTime(raceData, run.f0) < ClipT(raceData, i)

\* C5: in every reachable state the fired set holds no cue later than the
\* current frame time, and a step leaves in the fired set every fired cue
\* that is not later than the new frame time.
C5_FiredSetFollowsTime ==
    /\ [](\A i \in playedRadioClipsRef :
             ClipT(raceData, i) <= FrameTime(raceData, frameIndex))
    /\ [][\A i \in playedRadioClipsRef :
             ClipT(raceData', i) <= FrameTime(raceData', frameIndex')
                => i \in playedRadioClipsRef']_vars

\* A cue fired earlier (its timeout is pending) is out of the fired set
\* again: the frame was moved back before its timestamp.
C5_RearmedByMovingBack ==
    \E tm \in timers : \E i \in ClipIndices(raceData) :
       /\ ClipT(raceData, i) = tm.t
       /\ i \notin playedRadioClipsRef
       /\ FrameTime(raceData, frameIndex) < tm.t

\* C6: one scan marks at most one cue fired; with several unfired cues in
\* their windows it fires and starts exactly one, and the others stay out
\* of the fired set.
C6_OneCuePerScan ==
    [][/\ Cardinality(playedRadioClipsRef' \ playedRadioClipsRef) <= 1
       /\ (Scans /\ Cardinality(ScanCandidates) >= 2) =>
             \E i \in ScanCandidates :
                /\ Fires(i)
                /\ playedRadioClipsRef' \cap ScanCandidates = {i}]_vars

\* With radio enabled and the gate set, the current time is inside the
\* windows of a fired cue and of an unfired one.
C6_OneFiredOneLeft ==
    /\ radioEnabled
    /\ hasInteracted
    /\ \E i \in playedRadioClipsRef :
          \E j \in ClipIndices(raceData) \ playedRadioClipsRef :
             /\ InWindow(raceData, i, FrameTime(raceData, frameIndex))
             /\ InWindow(raceData, j, FrameTime(raceData, frameIndex))

\* C7: a step that ends with radio disabled or the gate unset marks no cue
\* fired, starts no clip and announces none.
C7_NothingFiresWhileGated ==
    [][(~radioEnabled' \/ ~hasInteracted') =>
          /\ playedRadioClipsRef' \subseteq playedRadioClipsRef
          /\ \A i \in ClipIndices(raceData') : ~Starts(i)]_vars

\* Playback has entered the window of a cue with the gate unset: the cue
\* is unfired and nothing was ever started.
C7_WindowEnteredUngated ==
    /\ ~hasInteracted
    /\ radioEnabled
    /\ lastTimeRef # 0
    /\ Candidates(raceData, frameIndex, playedRadioClipsRef) # {}
    /\ audioRef = NoAudio
    /\ timers = {}

\* C13: an announcement is never older than the fallback delay, whether
\* or not the audio ends; the end of the audio clears it, and so does the
\* fallback timeout of the announced cue.
C13_AnnouncementClearedInTime ==
    /\ [](currentRadio # NoClip => now - announcedAt <= FallbackDelay)
    /\ [][/\ AudioEnded => currentRadio' = NoClip
          /\ \A tm \in timers :
                (/\ TimeoutFires(tm)
                 /\ currentRadio # NoClip
                 /\ tm.t = ClipT(raceData, currentRadio)) => currentRadio' = NoClip]_vars

\* The audio is still playing (it has not ended) and nothing is announced:
\* the fallback timeout cleared the announcement.
C13_ClearedByFallback ==
    /\ audioRef.status = "playing"
    /\ audioRef.clip \in playedRadioClipsRef
    /\ currentRadio = NoClip

\* the Audio element holds the clip of cue i and its play() was rejected
FailedClip(audio, i) == audio.clip = i /\ audio.status = "failed"

\* C14: when audio.play() fails the cue is in the fired set all the same;
\* it stays there and is not started again while the current time is not
\* before its timestamp; and its fallback timeout clears the announcement.
C14_FailedPlayCountsAsFired ==
    [][\A i \in ClipIndices(raceData') :
          /\ (audioRef' # audioRef /\ FailedClip(audioRef', i))
                => i \in playedRadioClipsRef'
          /\ (/\ FailedClip(audioRef, i)
              /\ i \in playedRadioClipsRef
              /\ ClipT(raceData', i) <= FrameTime(raceData', frameIndex'))
                => (i \in playedRadioClipsRef' /\ ~Starts(i))
          /\ \A tm \in timers :
                (/\ TimeoutFires(tm)
                 /\ FailedClip(audioRef, i)
                 /\ currentRadio = i
                 /\ tm.t = ClipT(raceData, i)) => currentRadio' = NoClip]_vars

\* The clip of a cue failed to start; the current time is still in the
\* cue's window, the cue is in the fired set, and the announcement has been
\* cleared (by the fallback timeout, since the audio never played).
C14_FailedAndCleared ==
    /\ audioRef.status = "failed"
    /\ audioRef.clip \in playedRadioClipsRef
    /\ InWindow(raceData, audioRef.clip, FrameTime(raceData, frameIndex))
    /\ radioEnabled
    /\ hasInteracted
    /\ currentRadio = NoClip

\* C25: the fallback timeout of one firing leaves alone the announcement
\* of a firing made later than its own (the timeout was set FallbackDelay
\* before it falls due).
C25_TimerClearsOwnFiring ==
    [][\A tm \in timers :
          (/\ TimeoutFires(tm)
           /\ currentRadio # NoClip
           /\ announcedAt > tm.due - FallbackDelay) => currentRadio' = currentRadio]_vars

\* C27: a scan that finds several unfired cues in their windows fires the
\* one with the earliest timestamp, wherever it stands in teamRadio.
C27_EarliestCueFires ==
    [][(Scans /\ Cardinality(ScanCandidates) >= 2) =>
          \E i \in ScanCandidates :
             /\ Fires(i)
             /\ \A j \in ScanCandidates : ClipT(raceData', i) <= ClipT(raceData', j)]_vars

\* C28: a step that marks a cue fired or starts a clip changes frameIndex.
C28_FiresOnlyOnFrameChange ==
    [][(\E i \in ClipIndices(raceData') :
           \/ i \in playedRadioClipsRef' \ playedRadioClipsRef
           \/ Starts(i)) => frameIndex' # frameIndex]_vars

\* C29: at most one Audio element is playing in every reachable state,
\* and it is the one held in audioRef; an announced cue is the one fired
\* last; and a step that fires a cue leaves its clip, at the configured
\* volume, as the only one that can be playing.
C29_OneClipAtATime ==
    /\ [](/\ audible = (IF audioRef.status = "playing" THEN 1 ELSE 0)
          /\ currentRadio # NoClip => audioRef.clip = currentRadio)
    /\ [][\A i \in playedRadioClipsRef' \ playedRadioClipsRef :
             /\ audioRef'.clip = i
             /\ audioRef'.volume = RadioVolume
             /\ currentRadio' = i]_vars

\* The clips of two cues were started at the same wall-clock time (both
\* timeouts fall due together), and the clip of the second is playing.
C29_SecondClipReplacedFirst ==
    /\ audible = 1
    /\ audioRef.status = "playing"
    /\ currentRadio = audioRef.clip
    /\ \E a, b \in timers :
          /\ a.due = b.due
          /\ a.t # b.t
          /\ b.t = ClipT(raceData, audioRef.clip)
          /\ a.due = now + FallbackDelay

---------------------------------------------------------------------------
(* Properties of the view *)

\* C15: a step that changes frameIndex, isPlaying, playbackSpeed or the
\* interpolation fraction is an animation callback or a playback control;
\* cue firing, audio failure, announcement clearing, re-arming, driver
\* selection, the overlay and radio toggles and unmount leave them alone.
C15_ClockOnlyMovedByClock ==
    [][clockVars' # clockVars => (TickRuns \/ SeekControls \/ SpeedControls)]_vars

\* During an uninterrupted playback run that has advanced, a clip failed
\* to start, a driver is selected, and the weather overlay and the radio
\* have been switched off.
C15_RunWithViewEvents ==
    /\ run.on
    /\ frameIndex > run.f0
    /\ audioRef.status = "failed"
    /\ selectedDriver # NoDriver
    /\ ~showWeatherOverlay
    /\ ~radioEnabled

\* C17: a step that pauses playback or unmounts the view while a radio
\* clip is playing leaves no clip playing.
C17_PauseStopsClip ==
    [][(/\ audioRef.status = "playing"
        /\ (isPlaying /\ ~isPlaying') \/ (mounted /\ ~mounted'))
          => audioRef'.status # "playing"]_vars

---------------------------------------------------------------------------
(* Properties of the timing board *)

\* the least of a set of lap times, none for the empty set
Least(times) ==
    IF times = {} THEN NullTime ELSE CHOOSE x \in times : \A y \in times : x <= y

\* the non-null lap times of driver code in the laps reached at frame fi
TimesReached(rd, code, fi) ==
    {rd.lapTiming[code].laps[k].time :
        k \in 1..Min(CurrentLap(rd, fi), Len(rd.lapTiming[code].laps))}
        \ {NullTime}

\* C20: the best lap shown on the timing board for a driver is the least
\* non-null lap time among the laps reached at the current frame.
C20_BestLapUpToCurrentLap ==
    (Loaded /\ showTimingBoard) =>
        \A code \in FrameDrivers(raceData, frameIndex) :
            BestLapTime(raceData, code) = Least(TimesReached(raceData, code, frameIndex))

\* the raw position of a driver in frame fi, over ProgressDen
RawPosition(rd, fi, code) ==
    <<rd.frames[fi + 1].samples[code].x * ProgressDen,
      rd.frames[fi + 1].samples[code].y * ProgressDen>>

\* C21: on the timing board the row of the first driver in the running
\* order shows "Leader" as gap, and the row of every other driver whose
\* time for the previous lap is known, as is the leader's, shows the
\* driver's time less the leader's.
C21_GapIsOwnLessLeader ==
    (Loaded /\ showTimingBoard) =>
        LET order == SortedDrivers(raceData, frameIndex)
            lap == CurrentLap(raceData, frameIndex) - 1
        IN \A idx \in 1..Len(order) :
              IF idx = 1 THEN GapCell(raceData, frameIndex, idx) = LeaderCell
              ELSE LET own == LapAt(raceData, order[idx], lap).time
                       leader == LapAt(raceData, order[1], lap).time
                   IN (own # NullTime /\ leader # NullTime)
                         => GapCell(raceData, frameIndex, idx)
                               = [kind |-> "plus", ms |-> own - leader]

\* C22: on the timing board the row of a driver of the current frame with
\* no entry in lapTiming shows the dash for the last lap, the best lap, the
\* three sectors and the interval.
C22_NoEntryShowsDashes ==
    (Loaded /\ showTimingBoard) =>
        LET order == SortedDrivers(raceData, frameIndex)
        IN \A idx \in 1..Len(order) :
              ~HasLapData(raceData, order[idx]) =>
                 /\ LastLapCell(raceData, frameIndex, idx) = DashCell
                 /\ BestLapCell(raceData, frameIndex, idx) = DashCell
                 /\ IntervalCell(raceData, frameIndex, idx) = DashCell
                 /\ SectorCells(raceData, frameIndex, idx)
                       = <<DashCell, DashCell, DashCell>>

\* The timing board shows, behind a leader whose time for the previous lap
\* is known, a driver with no entry in lapTiming.
C22_BehindTimedLeader ==
    /\ Loaded
    /\ showTimingBoard
    /\ LET order == SortedDrivers(raceData, frameIndex)
       IN /\ Len(order) = 2
          /\ ~HasLapData(raceData, order[2])
          /\ LastLapData(raceData, frameIndex, order[1]).time # NullTime

\* C24: the driver info panel and every row of the timing board show DRS
\* ON for a sample with drs of 10 or more and OFF for one below 10.
C24_DrsOnFromTen ==
    LET drs(code) == raceData.frames[frameIndex + 1].samples[code].drs
        shown(value) == IF value < 10 THEN "OFF" ELSE "ON"
    IN /\ (Loaded /\ PanelShown(raceData, frameIndex, selectedDriver))
            => PanelDrs(drs(selectedDriver)) = shown(drs(selectedDriver))
       /\ (Loaded /\ showTimingBoard) =>
             \A code \in FrameDrivers(raceData, frameIndex) :
                BoardDrs(drs(code)) = shown(drs(code))

\* The panel and the timing board are both shown; the selected driver's
\* sample has drs 10 and the other driver's has drs 9.
C24_TenAndNineShown ==
    /\ Loaded
    /\ showTimingBoard
    /\ PanelShown(raceData, frameIndex, selectedDriver)
    /\ Sample(raceData, frameIndex, selectedDriver).drs = 10
    /\ \E code \in FrameDrivers(raceData, frameIndex) :
          Sample(raceData, frameIndex, code).drs = 9

\* C31: on the timing board the leader's row shows no interval; the row
\* at a later place shows the driver's time for the previous lap less that
\* of the driver one place ahead when both are known, and the dash when
\* either is missing.
C31_IntervalIsOwnLessAhead ==
    (Loaded /\ showTimingBoard) =>
        LET order == SortedDrivers(raceData, frameIndex)
            lap == CurrentLap(raceData, frameIndex) - 1
        IN \A idx \in 1..Len(order) :
              IF idx = 1 THEN IntervalCell(raceData, frameIndex, idx) = DashCell
              ELSE LET own == LapAt(raceData, order[idx], lap).time
                       ahead == LapAt(raceData, order[idx - 1], lap).time
                   IN IntervalCell(raceData, frameIndex, idx) =
                         IF own # NullTime /\ ahead # NullTime
                         THEN [kind |-> "plus", ms |-> own - ahead]
                         ELSE DashCell

\* C32: the Diff cell of a row shows the grid position less the running
\* position, and nothing when that is 0; for a driver with no entry in
\* lapTiming it shows nothing.
C32_DiffFromKnownGrid ==
    (Loaded /\ showTimingBoard) =>
        LET order == SortedDrivers(raceData, frameIndex)
        IN \A idx \in 1..Len(order) :
              LET code == order[idx]
                  place == raceData.frames[frameIndex + 1].samples[code].position
              IN DiffCell(raceData, frameIndex, idx) =
                    IF HasLapData(raceData, code)
                          /\ raceData.lapTiming[code].grid_pos # place
                    THEN [kind |-> "places",
                          places |-> raceData.lapTiming[code].grid_pos - place]
                    ELSE EmptyCell

\* C33: a lap time or sector time recorded as 0 is not shown as a missing
\* one is (by the dash).
C33_ZeroIsNotMissing ==
    (Loaded /\ showTimingBoard) =>
        LET order == SortedDrivers(raceData, frameIndex)
        IN \A idx \in 1..Len(order) :
              LET last == LastLapData(raceData, frameIndex, order[idx])
              IN /\ last.time = 0 =>
                       LastLapCell(raceData, frameIndex, idx) # FormatLapTime(NullTime)
                 /\ last.s1 = 0 =>
                       SectorCells(raceData, frameIndex, idx)[1] # FormatSector(NullTime)

---------------------------------------------------------------------------
(* Properties of the track drawing *)

\* C23: a driver of the current frame is drawn at the raw position of the
\* frame when the interpolation fraction is 0, and at every fraction when
\* the current frame is the last or the driver is not in the next frame;
\* otherwise the drawn position lies on the way to the driver's position
\* in frame min(frameIndex + 1, last).
C23_DrawnAtFrameOrTowardsNext ==
    (Loaded /\ HasFrame(raceData, frameIndex)) =>
        \A code \in FrameDrivers(raceData, frameIndex) :
           LET drawn == DrawnPosition(raceData, frameIndex, code, interpolationProgress)
               raw == RawPosition(raceData, frameIndex, code)
               target == Min(frameIndex + 1, FramesLength(raceData) - 1)
           IN /\ interpolationProgress = 0 => drawn = raw
              /\ frameIndex = FramesLength(raceData) - 1 => drawn = raw
              /\ code \notin raceData.frames[target + 1].drivers => drawn = raw
              /\ code \in raceData.frames[target + 1].drivers =>
                    \A c \in 1..2 :
                       drawn[c] - raw[c] =
                          ((RawPosition(raceData, target, code)[c] - raw[c])
                              \div ProgressDen) * interpolationProgress

\* Between two frames (the fraction is not 0) one driver is drawn on the
\* way to the next frame and the other, who is not in the next frame, at
\* the raw position.
C23_MovingAndHeld ==
    /\ Loaded
    /\ HasFrame(raceData, frameIndex)
    /\ interpolationProgress # 0
    /\ \E a, b \in FrameDrivers(raceData, frameIndex) :
          /\ a \in FrameDrivers(raceData, frameIndex + 1)
          /\ DrawnPosition(raceData, frameIndex, a, interpolationProgress)
                # RawPosition(raceData, frameIndex, a)
          /\ b \notin FrameDrivers(raceData, frameIndex + 1)
          /\ DrawnPosition(raceData, frameIndex, b, interpolationProgress)
                = RawPosition(raceData, frameIndex, b)

=============================================================================
